---- MODULE Spec2Model ----
(***************************************************************************)
(* A model of the StudentAutocommitter scheduler and error handler:        *)
(*   src/src/error_handler.py  (ErrorHandler: pending queue, statistics)   *)
(*   src/src/scheduler.py      (Scheduler: timetable, loop, retry queue)   *)
(*                                                                         *)
(* Time is a counter of minutes (`now`).      Both classes keep the retry  *)
(* queue in the same file, data/pending_commits.json, under the default    *)
(* configuration (storage.data_dir = "./data"); the model has one          *)
(* pending_file.  File reads and writes succeed.                           *)
(*                                                                         *)
(* Spec      : the operations on the stores, called in any order.          *)
(* SchedSpec : Scheduler.start/stop and the threads of _run_scheduler over *)
(*             the timetable of the `schedule` package (one global list of *)
(*             jobs); the clock moves from one due time to the next.       *)
(***************************************************************************)
EXTENDS Integers, Sequences, FiniteSets, TLC

\* ---------------------------------------------------------------- bounds
MaxRetryAttempts == 2
MaxQueueSize == 2
MaxRetryDelay == 1
MaxTime == 1
MaxTotal == 3
MaxPayload == 1
MaxThreads == 2
MaxCommits == 1
HorizonMinutes == 30

\* ------------------------------------------------------------- variables
VARIABLES
    now,            \* the wall clock, in minutes
    cfg,            \* the configuration (config_manager), fixed during a run
    pending_file,   \* data/pending_commits.json: a sequence of items
    stats_file,     \* data/statistics.json
    errors_file,    \* data/errors.json: the timestamps of the stored errors
    disk,           \* data/pending_commits.json is "ok", "unparsable" or "missing"
    stats,          \* Scheduler.stats: the in-memory rolling counters
    nextId,         \* ghost: number of items enqueued so far
    lastOp,         \* ghost: what the last completed operation did
    is_running,     \* Scheduler.is_running
    stop_event,     \* Scheduler.stop_event is set
    scheduler_thread, \* Scheduler.scheduler_thread: 0 (None) or a thread
    threads,        \* the threads started so far, each at a place of _run_scheduler
    jobs,           \* schedule.jobs: the timetable, in registration order
    nextJob         \* ghost: number of jobs registered so far

storeVars == <<pending_file, stats_file, errors_file, disk, stats, nextId, lastOp>>
schedVars == <<is_running, stop_event, scheduler_thread, threads, jobs, nextJob>>
vars == <<now, cfg, storeVars, schedVars>>

\* what the counters of both statistics have counted so far (bounds the runs)
Counted == stats_file.total_commits + stats.commits_created + stats.errors

Max(a, b) == IF a >= b THEN a ELSE b
Min(a, b) == IF a <= b THEN a ELSE b

\* Python's q[-n:]
LastN(q, n) ==
    IF n = 0 THEN q
    ELSE IF n > 0 THEN SubSeq(q, Max(1, Len(q) - n + 1), Len(q))
    ELSE SubSeq(q, Min(Len(q), 0 - n) + 1, Len(q))

Ids(q) == {q[i].id : i \in 1..Len(q)}

\* ---------------------------------------------------------- configuration
\* the smallest and the largest value of each setting
Configs ==
    [retry_attempts : {1, MaxRetryAttempts},
     retry_delay_minutes : {0, MaxRetryDelay},
     max_queue_size : {1, MaxQueueSize},
     queue_failed_commits : BOOLEAN,
     local_path_set : {TRUE},
     min_commits_per_day : {1},
     max_commits_per_day : {1},
     active_start : {9},
     active_end : {21},
     weekend_activity : {FALSE},
     random_delays : {TRUE},
     vary_commit_times : {TRUE}]

max_stored_errors == 2

\* --------------------------------------------------------------- records
\* The keys a stored item has depend on who wrote it.
ErrorHandlerKeys ==
    {"added_at", "commit_data", "error_info", "retry_count", "next_retry", "max_retries"}
SchedulerKeys == {"scheduled_time", "error", "retry_count", "next_retry"}

HasKey(item, k) ==
    k \in (IF item.writer = "ErrorHandler" THEN ErrorHandlerKeys ELSE SchedulerKeys)

\* commit_data values: 0 is an empty/None payload, 1..MaxPayload real payloads
NoData == 0
Payloads == 1..MaxPayload

default_stats ==
    [total_commits |-> 0, successful_commits |-> 0, failed_commits |-> 0,
     pending_commits |-> 0]

\* Scheduler.stats after __init__ (0 stands for None)
scheduler_stats ==
    [commits_created |-> 0, last_commit_time |-> 0, errors |-> 0, start_time |-> 0]

NoOp ==
    [op |-> "none", calls |-> <<>>, due |-> {}, before |-> {}, evicted |-> {},
     added |-> {}, quota |-> 0, won |-> {}, late |-> FALSE, returned |-> "none"]

\* the operations that enqueue
IsEnqueue(o) == o.added # {}

\* ghost: `item` after one more sweep has taken it as due (the count stops one
\* above the configured attempts, which bounds the model)
Tried(item, c) == [item EXCEPT !.tries = Min(@ + 1, c.retry_attempts + 1)]

\* ------------------------------------------------- ErrorHandler: statistics
_update_stats_NoTotal(s, successful, failed, count) ==
    [s EXCEPT
       !.successful_commits = IF successful THEN @ + count ELSE @,
       !.failed_commits = IF failed THEN @ + count ELSE @]

_update_stats(s, successful, failed, count) ==
    [s EXCEPT
       !.total_commits = @ + count,
       !.successful_commits = IF successful THEN @ + count ELSE @,
       !.failed_commits = IF failed THEN @ + count ELSE @]

_update_pending_stats(s, pending_count) ==
    [s EXCEPT !.pending_commits = pending_count]

\* _save_error keeping the first entries, not the last
_save_error_KeepOldest(errors, t) ==
    LET e1 == Append(errors, t)
    IN  IF Len(e1) > max_stored_errors THEN SubSeq(e1, 1, max_stored_errors) ELSE e1

\* _save_error(error_info): append, then errors[-max_stored_errors:]
_save_error(errors, t) == LastN(Append(errors, t), max_stored_errors)

\* ------------------------------------------- ErrorHandler: pending queue
pending_item(id, commit_data, t, c) ==
    [id |-> id, writer |-> "ErrorHandler",
     added_at |-> t, commit_data |-> commit_data, scheduled_time |-> 0,
     retry_count |-> 0,
     next_retry |-> t + c.retry_delay_minutes,
     max_retries |-> c.retry_attempts,
     tries |-> 0]

\* mutant: the queue is not cut to max_queue_size
_add_to_pending_queue_NoLimit(q, id, commit_data, t, c) ==
    Append(q, pending_item(id, commit_data, t, c))

\* mutant: the queue is cut at the wrong end (q[:max_size])
_add_to_pending_queue_KeepOldest(q, id, commit_data, t, c) ==
    LET q1 == Append(q, pending_item(id, commit_data, t, c))
    IN  IF Len(q1) > c.max_queue_size THEN SubSeq(q1, 1, c.max_queue_size) ELSE q1

_add_to_pending_queue(q, id, commit_data, t, c) ==
    LET q1 == Append(q, pending_item(id, commit_data, t, c))
    IN  IF Len(q1) > c.max_queue_size THEN LastN(q1, c.max_queue_size) ELSE q1

\* handle_commit_error(error, commit_data)
\* With the queue file missing _add_to_pending_queue starts from an empty
\* list; with a file json.load cannot parse its except branch returns
\* {"handled": False} and nothing is written.
HandleCommitError(commit_data) ==
    /\ Counted < MaxTotal
    /\ errors_file' = _save_error(errors_file, now)
    /\ LET s1 == _update_stats(stats_file, FALSE, TRUE, 1)
           queued == cfg.queue_failed_commits /\ commit_data # NoData
           q == _add_to_pending_queue(pending_file, nextId + 1, commit_data, now, cfg)
       IN  IF queued /\ disk = "unparsable"
           THEN /\ stats_file' = s1
                /\ lastOp' = [NoOp EXCEPT !.op = "handle_commit_error",
                                !.returned = "enqueue_failed"]
                /\ UNCHANGED <<pending_file, nextId, disk>>
           ELSE IF queued
           THEN /\ pending_file' = q
                /\ disk' = "ok"
                /\ stats_file' = _update_pending_stats(s1, Len(q))
                /\ nextId' = nextId + 1
                /\ lastOp' = [NoOp EXCEPT !.op = "handle_commit_error",
                                !.added = {nextId + 1},
                                !.before = Ids(pending_file),
                                !.evicted = Ids(pending_file) \ Ids(q),
                                !.returned = "enqueued"]
           ELSE /\ stats_file' = s1
                /\ lastOp' = [NoOp EXCEPT !.op = "handle_commit_error"]
                /\ UNCHANGED <<pending_file, nextId, disk>>
    /\ UNCHANGED <<now, cfg, stats, schedVars>>

\* mutant: an item whose retry succeeded stays in the queue
RetryPending_KeepOnSuccess(item, out, t, c) ==
    IF ~(t >= item.next_retry)
    THEN [keep |-> <<item>>, due |-> {}, won |-> {}, succeeded |-> 0, failed |-> 0,
          calls |-> <<>>]
    ELSE IF ~HasKey(item, "commit_data")
    THEN \* item["commit_data"] raises KeyError: the except branch keeps the item
         [keep |-> <<Tried(item, c)>>, due |-> {item.id}, won |-> {}, succeeded |-> 0,
          failed |-> 1, calls |-> <<>>]
    ELSE IF out = "raises"
    THEN [keep |-> <<Tried(item, c)>>, due |-> {item.id}, won |-> {}, succeeded |-> 0,
          failed |-> 1,
          calls |-> <<[id |-> item.id, payload |-> item.commit_data]>>]
    ELSE IF out = "success"
    THEN [keep |-> <<Tried(item, c)>>, due |-> {item.id}, won |-> {item.id}, succeeded |-> 1,
          failed |-> 0,
          calls |-> <<[id |-> item.id, payload |-> item.commit_data]>>]
    ELSE LET rc == item.retry_count + 1 IN
         [keep |-> IF rc < item.max_retries
                   THEN <<[Tried(item, c) EXCEPT
                             !.retry_count = rc,
                             !.next_retry = t + c.retry_delay_minutes]>>
                   ELSE <<>>,
          due |-> {item.id}, won |-> {}, succeeded |-> 0, failed |-> 1,
          calls |-> <<[id |-> item.id, payload |-> item.commit_data]>>]

\* the iteration with a delay that grows with the number of attempts
RetryPending_Backoff(item, out, t, c) ==
    IF ~(t >= item.next_retry)
    THEN [keep |-> <<item>>, due |-> {}, won |-> {}, succeeded |-> 0, failed |-> 0,
          calls |-> <<>>]
    ELSE IF ~HasKey(item, "commit_data")
    THEN \* item["commit_data"] raises KeyError: the except branch keeps the item
         [keep |-> <<Tried(item, c)>>, due |-> {item.id}, won |-> {}, succeeded |-> 0,
          failed |-> 1, calls |-> <<>>]
    ELSE IF out = "raises"
    THEN [keep |-> <<Tried(item, c)>>, due |-> {item.id}, won |-> {}, succeeded |-> 0,
          failed |-> 1,
          calls |-> <<[id |-> item.id, payload |-> item.commit_data]>>]
    ELSE IF out = "success"
    THEN [keep |-> <<>>, due |-> {item.id}, won |-> {item.id}, succeeded |-> 1,
          failed |-> 0,
          calls |-> <<[id |-> item.id, payload |-> item.commit_data]>>]
    ELSE LET rc == item.retry_count + 1 IN
         [keep |-> IF rc < item.max_retries
                   THEN <<[Tried(item, c) EXCEPT
                             !.retry_count = rc,
                             !.next_retry = t + (rc + 1) * c.retry_delay_minutes]>>
                   ELSE <<>>,
          due |-> {item.id}, won |-> {}, succeeded |-> 0, failed |-> 1,
          calls |-> <<[id |-> item.id, payload |-> item.commit_data]>>]

\* the iteration that postpones the items that are not due
RetryPending_PostponesWaiting(item, out, t, c) ==
    IF ~(t >= item.next_retry)
    THEN [keep |-> <<[item EXCEPT !.next_retry = @ + 1]>>, due |-> {}, won |-> {}, succeeded |-> 0, failed |-> 0,
          calls |-> <<>>]
    ELSE IF ~HasKey(item, "commit_data")
    THEN \* item["commit_data"] raises KeyError: the except branch keeps the item
         [keep |-> <<Tried(item, c)>>, due |-> {item.id}, won |-> {}, succeeded |-> 0,
          failed |-> 1, calls |-> <<>>]
    ELSE IF out = "raises"
    THEN [keep |-> <<Tried(item, c)>>, due |-> {item.id}, won |-> {}, succeeded |-> 0,
          failed |-> 1,
          calls |-> <<[id |-> item.id, payload |-> item.commit_data]>>]
    ELSE IF out = "success"
    THEN [keep |-> <<>>, due |-> {item.id}, won |-> {item.id}, succeeded |-> 1,
          failed |-> 0,
          calls |-> <<[id |-> item.id, payload |-> item.commit_data]>>]
    ELSE LET rc == item.retry_count + 1 IN
         [keep |-> IF rc < item.max_retries
                   THEN <<[Tried(item, c) EXCEPT
                             !.retry_count = rc,
                             !.next_retry = t + c.retry_delay_minutes]>>
                   ELSE <<>>,
          due |-> {item.id}, won |-> {}, succeeded |-> 0, failed |-> 1,
          calls |-> <<[id |-> item.id, payload |-> item.commit_data]>>]

\* One iteration of the loop of process_pending_commits over `item`, with the
\* outcome `out` of retry_callback for it: "success", "failure" or "raises".
RetryPending(item, out, t, c) ==
    IF ~(t >= item.next_retry)
    THEN [keep |-> <<item>>, due |-> {}, won |-> {}, succeeded |-> 0, failed |-> 0,
          calls |-> <<>>]
    ELSE IF ~HasKey(item, "commit_data")
    THEN \* item["commit_data"] raises KeyError: the except branch keeps the item
         [keep |-> <<Tried(item, c)>>, due |-> {item.id}, won |-> {}, succeeded |-> 0,
          failed |-> 1, calls |-> <<>>]
    ELSE IF out = "raises"
    THEN [keep |-> <<Tried(item, c)>>, due |-> {item.id}, won |-> {}, succeeded |-> 0,
          failed |-> 1,
          calls |-> <<[id |-> item.id, payload |-> item.commit_data]>>]
    ELSE IF out = "success"
    THEN [keep |-> <<>>, due |-> {item.id}, won |-> {item.id}, succeeded |-> 1,
          failed |-> 0,
          calls |-> <<[id |-> item.id, payload |-> item.commit_data]>>]
    ELSE LET rc == item.retry_count + 1 IN
         [keep |-> IF rc < item.max_retries
                   THEN <<[Tried(item, c) EXCEPT
                             !.retry_count = rc,
                             !.next_retry = t + c.retry_delay_minutes]>>
                   ELSE <<>>,
          due |-> {item.id}, won |-> {}, succeeded |-> 0, failed |-> 1,
          calls |-> <<[id |-> item.id, payload |-> item.commit_data]>>]

RECURSIVE SweepPending(_, _, _, _, _)
SweepPending(q, outs, i, t, c) ==
    IF i > Len(q)
    THEN [keep |-> <<>>, due |-> {}, won |-> {}, succeeded |-> 0, failed |-> 0,
          calls |-> <<>>]
    ELSE LET h == RetryPending(q[i], outs[i], t, c)
             r == SweepPending(q, outs, i + 1, t, c)
         IN  [keep |-> h.keep \o r.keep, due |-> h.due \cup r.due,
              won |-> h.won \cup r.won,
              succeeded |-> h.succeeded + r.succeeded,
              failed |-> h.failed + r.failed,
              calls |-> h.calls \o r.calls]

Outcomes == {"success", "failure", "raises"}

\* process_pending_commits(retry_callback): its effect on the files
ErrorHandler_process_pending_commits(outs) ==
    /\ pending_file # <<>>              \* `if not pending: return stats`
    /\ LET r == SweepPending(pending_file, outs, 1, now, cfg)
           s1 == _update_pending_stats(stats_file, Len(r.keep))
           s2 == IF r.succeeded > 0
                 THEN _update_stats(s1, TRUE, FALSE, r.succeeded) ELSE s1
           s3 == IF r.failed > 0
                 THEN _update_stats(s2, FALSE, TRUE, r.failed) ELSE s2
       IN  /\ pending_file' = r.keep
           /\ stats_file' = s3
           /\ lastOp' = [NoOp EXCEPT !.op = "process_pending_commits",
                           !.calls = r.calls, !.due = r.due, !.won = r.won]
    /\ UNCHANGED <<now, cfg, errors_file, disk, stats, nextId, schedVars>>

\* process_pending_commits(retry_callback)
ProcessPendingCommits(outs) ==
    /\ Counted < MaxTotal
    /\ ErrorHandler_process_pending_commits(outs)

\* the same where the clock runs long enough for two rounds of retries
OrderDelay == MaxRetryDelay + 1
OrderHorizon == 2 * OrderDelay
OrderTotal == MaxTotal + 1

ProcessPendingLate(outs) ==
    /\ Counted < OrderTotal
    /\ ErrorHandler_process_pending_commits(outs)

TickLate ==
    /\ now < OrderHorizon
    /\ now' = now + 1
    /\ lastOp' = NoOp
    /\ UNCHANGED <<cfg, pending_file, stats_file, errors_file, disk, stats, nextId, schedVars>>

\* clear_pending_queue()
ClearPendingQueue ==
    /\ pending_file # <<>> \/ disk # "ok"
    /\ pending_file' = <<>>
    /\ disk' = "ok"                     \* open(..., 'w') and json.dump([])
    /\ stats_file' = _update_pending_stats(stats_file, 0)
    /\ lastOp' = [NoOp EXCEPT !.op = "clear_pending_queue"]
    /\ UNCHANGED <<now, cfg, errors_file, stats, nextId, schedVars>>

\* ------------------------------------------------ Scheduler: retry queue
retry_item(id, scheduled_time, t, c) ==
    [id |-> id, writer |-> "Scheduler",
     added_at |-> t,        \* ghost: the time of the enqueue; the key is absent
     commit_data |-> NoData, scheduled_time |-> scheduled_time,
     retry_count |-> 0,
     next_retry |-> t + c.retry_delay_minutes,
     max_retries |-> 0,
     tries |-> 0]

\* mutant: the queue is not cut to max_queue_size
_add_to_retry_queue_NoLimit(q, id, scheduled_time, t, c) ==
    Append(q, retry_item(id, scheduled_time, t, c))

_add_to_retry_queue(q, id, scheduled_time, t, c) ==
    LET q1 == Append(q, retry_item(id, scheduled_time, t, c))
    IN  IF Len(q1) > c.max_queue_size THEN LastN(q1, c.max_queue_size) ELSE q1

\* The outcomes of one scheduled execution: the Change Producer raises, it
\* returns no changes, the Repository Port raises, or the commit is created.
CommitOutcomes == {"producer_raises", "empty", "port_raises", "ok"}

\* mutant: an empty payload is counted as an error
create_scheduled_commit_EmptyCounted(scheduled_time, outcome, changes) ==
    /\ UNCHANGED <<stats_file, errors_file, disk>>
    /\ IF outcome = "empty"
       THEN /\ lastOp' = [NoOp EXCEPT !.op = "create_scheduled_commit_skip"]
            /\ stats' = [stats EXCEPT !.errors = @ + 1]
            /\ UNCHANGED <<pending_file, nextId>>
       ELSE IF outcome = "ok"
       THEN /\ stats' = [stats EXCEPT !.commits_created = @ + 1,
                                      !.last_commit_time = now]
            /\ lastOp' = [NoOp EXCEPT !.op = "create_scheduled_commit_ok",
                            !.calls = <<[id |-> 0, payload |-> changes]>>]
            /\ UNCHANGED <<pending_file, nextId>>
       ELSE /\ stats' = [stats EXCEPT !.errors = @ + 1]
            /\ LET q == _add_to_retry_queue(pending_file, nextId + 1,
                                            scheduled_time, now, cfg)
                   called == IF outcome = "port_raises"
                             THEN <<[id |-> 0, payload |-> changes]>> ELSE <<>>
               IN  IF cfg.queue_failed_commits
                   THEN /\ pending_file' = q
                        /\ nextId' = nextId + 1
                        /\ lastOp' = [NoOp EXCEPT
                                        !.op = "create_scheduled_commit_failed",
                                        !.calls = called,
                                        !.added = {nextId + 1},
                                        !.before = Ids(pending_file),
                                        !.evicted = Ids(pending_file) \ Ids(q)]
                   ELSE /\ lastOp' = [NoOp EXCEPT
                                        !.op = "create_scheduled_commit_failed",
                                        !.calls = called]
                        /\ UNCHANGED <<pending_file, nextId>>


\* _create_scheduled_commit(scheduled_time) with _handle_commit_error: the
\* job's effect on the rolling counters and on the retry queue.  `changes`
\* is what the Change Producer generated.
create_scheduled_commit(scheduled_time, outcome, changes) ==
    /\ UNCHANGED <<stats_file, errors_file>>
    /\ IF outcome = "empty"
       THEN /\ lastOp' = [NoOp EXCEPT !.op = "create_scheduled_commit_skip"]
            /\ UNCHANGED <<pending_file, stats, nextId, disk>>
       ELSE IF outcome = "ok"
       THEN /\ stats' = [stats EXCEPT !.commits_created = @ + 1,
                                      !.last_commit_time = now]
            /\ lastOp' = [NoOp EXCEPT !.op = "create_scheduled_commit_ok",
                            !.calls = <<[id |-> 0, payload |-> changes]>>]
            /\ UNCHANGED <<pending_file, nextId, disk>>
       ELSE /\ stats' = [stats EXCEPT !.errors = @ + 1]
            /\ LET q == _add_to_retry_queue(pending_file, nextId + 1,
                                            scheduled_time, now, cfg)
                   called == IF outcome = "port_raises"
                             THEN <<[id |-> 0, payload |-> changes]>> ELSE <<>>
               IN  IF cfg.queue_failed_commits /\ disk = "unparsable"
                   THEN \* json.load raises: _add_to_retry_queue logs and returns
                        /\ lastOp' = [NoOp EXCEPT
                                        !.op = "create_scheduled_commit_failed",
                                        !.calls = called,
                                        !.returned = "enqueue_failed"]
                        /\ UNCHANGED <<pending_file, nextId, disk>>
                   ELSE IF cfg.queue_failed_commits
                   THEN /\ pending_file' = q
                        /\ disk' = "ok"
                        /\ nextId' = nextId + 1
                        /\ lastOp' = [NoOp EXCEPT
                                        !.op = "create_scheduled_commit_failed",
                                        !.calls = called,
                                        !.added = {nextId + 1},
                                        !.before = Ids(pending_file),
                                        !.evicted = Ids(pending_file) \ Ids(q),
                                        !.returned = "enqueued"]
                   ELSE /\ lastOp' = [NoOp EXCEPT
                                        !.op = "create_scheduled_commit_failed",
                                        !.calls = called]
                        /\ UNCHANGED <<pending_file, nextId, disk>>

\* the iteration that never gives an item up
RetryQueued_NeverRemoves(item, t, c) ==
    IF ~(t >= item.next_retry)
    THEN [keep |-> <<item>>, due |-> {}]
    ELSE [keep |-> <<[Tried(item, c) EXCEPT
                        !.retry_count = @ + 1,
                        !.next_retry = t + c.retry_delay_minutes]>>,
          due |-> {item.id}]

\* One iteration of the loop of _process_pending_commits over `item`.
RetryQueued(item, t, c) ==
    IF ~(t >= item.next_retry)
    THEN [keep |-> <<item>>, due |-> {}]
    ELSE IF ~HasKey(item, "scheduled_time")
    THEN \* item['scheduled_time'] raises KeyError: the except branch keeps the item
         [keep |-> <<Tried(item, c)>>, due |-> {item.id}]
    ELSE LET rc == item.retry_count + 1 IN
         [keep |-> IF rc < c.retry_attempts
                   THEN <<[Tried(item, c) EXCEPT
                             !.retry_count = rc,
                             !.next_retry = t + c.retry_delay_minutes]>>
                   ELSE <<>>,
          due |-> {item.id}]

RECURSIVE SweepQueue(_, _, _, _)
SweepQueue(q, i, t, c) ==
    IF i > Len(q)
    THEN [keep |-> <<>>, due |-> {}]
    ELSE LET h == RetryQueued(q[i], t, c)
             r == SweepQueue(q, i + 1, t, c)
         IN  [keep |-> h.keep \o r.keep, due |-> h.due \cup r.due]

\* _process_pending_commits(): the sweep job's effect.
process_pending_commits ==
    LET r == SweepQueue(pending_file, 1, now, cfg)
    IN  /\ pending_file' = r.keep
        /\ lastOp' = [NoOp EXCEPT !.op = "_process_pending_commits", !.due = r.due]
        /\ UNCHANGED <<stats_file, errors_file, disk, stats, nextId>>

\* The two jobs, run by the Scheduler's loop at their times.
CreateScheduledCommit(outcome, changes) ==
    /\ Counted < MaxTotal
    /\ create_scheduled_commit(now, outcome, changes)
    /\ UNCHANGED <<now, cfg, schedVars>>

SchedulerProcessPending ==
    /\ process_pending_commits
    /\ UNCHANGED <<now, cfg, schedVars>>

\* ------------------------------ a sweep next to other threads of control
\* process_pending_commits holds no lock: between its read of the file
\* (get_pending_commits) and its write, other callers read and write the
\* same file.  A thread is outside any operation ("caller") or has read the
\* queue and holds the list it read ("sweeping").
Caller == [pc |-> "caller", work |-> <<>>, wake |-> 0]

SweepRead(t) ==
    /\ threads[t].pc = "caller"
    /\ pending_file # <<>>              \* `if not pending: return stats`
    /\ threads' = [threads EXCEPT ![t] =
                      [pc |-> "sweeping", work |-> pending_file, wake |-> 0]]
    /\ lastOp' = [NoOp EXCEPT !.op = "get_pending_commits"]
    /\ UNCHANGED <<now, cfg, pending_file, stats_file, errors_file, disk, stats,
                   nextId, is_running, stop_event, scheduler_thread, jobs, nextJob>>

SweepWrite(t, outs) ==
    /\ threads[t].pc = "sweeping"
    /\ Counted < MaxTotal
    /\ LET r == SweepPending(threads[t].work, outs, 1, now, cfg)
           s1 == _update_pending_stats(stats_file, Len(r.keep))
           s2 == IF r.succeeded > 0
                 THEN _update_stats(s1, TRUE, FALSE, r.succeeded) ELSE s1
           s3 == IF r.failed > 0
                 THEN _update_stats(s2, FALSE, TRUE, r.failed) ELSE s2
       IN  /\ pending_file' = r.keep
           /\ disk' = "ok"
           /\ stats_file' = s3
           /\ lastOp' = [NoOp EXCEPT !.op = "process_pending_commits",
                           !.calls = r.calls, !.due = r.due, !.won = r.won,
                           !.before = Ids(threads[t].work)]
    /\ threads' = [threads EXCEPT ![t] = Caller]
    /\ UNCHANGED <<now, cfg, errors_file, stats, nextId, is_running, stop_event,
                   scheduler_thread, jobs, nextJob>>

\* ------------------------------------------------- a crash of the process
\* The process dies while an operation rewrites the queue file with
\* `with open(file, 'w') as f: json.dump(queue, f)`: before the open (the
\* file is as it was), after the open has truncated the file and before the
\* dump is complete (json.load cannot parse what is there), or after the
\* dump.  The restart builds a new Scheduler; _init_data_files leaves an
\* existing file alone.
CrashPoints == {"before_open", "torn", "written"}

Crash(point, q, added) ==
    /\ nextId < MaxTotal
    /\ disk # "unparsable"
    /\ IF point = "before_open" THEN UNCHANGED <<pending_file, disk>>
       ELSE IF point = "torn" THEN pending_file' = <<>> /\ disk' = "unparsable"
       ELSE pending_file' = q /\ disk' = "ok"
    /\ nextId' = nextId + Cardinality(added)
    /\ stats' = scheduler_stats
    /\ lastOp' = [NoOp EXCEPT !.op = "crash_in_write",
                     !.before = Ids(pending_file),
                     !.added = added,
                     !.evicted = Ids(pending_file) \ Ids(q)]
    /\ UNCHANGED <<now, cfg, stats_file, errors_file, schedVars>>

\* a crash in the write of Scheduler._add_to_retry_queue
CrashInEnqueue(point) ==
    /\ cfg.queue_failed_commits
    /\ Crash(point, _add_to_retry_queue(pending_file, nextId + 1, now, now, cfg),
             {nextId + 1})

\* a crash in the write of Scheduler._process_pending_commits
CrashInSweep(point) ==
    /\ disk = "ok"
    /\ Crash(point, SweepQueue(pending_file, 1, now, cfg).keep, {})

\* a crash in the write of clear_pending_queue
CrashInClear(point) ==
    Crash(point, <<>>, {})

\* ------------------------------------------------------------------ clock
Tick ==
    /\ now < MaxTime
    /\ now' = now + 1
    /\ lastOp' = NoOp
    /\ UNCHANGED <<cfg, pending_file, stats_file, errors_file, disk, stats, nextId, schedVars>>

\* ============================================== Scheduler: the timetable
\* `now` counts minutes from a Monday 00:00.
MinutesPerDay == 24 * 60
DayOf(t) == t \div MinutesPerDay
TimeOfDay(t) == t % MinutesPerDay
DayStart(t) == DayOf(t) * MinutesPerDay
\* mutant: only Sunday counts as weekend
IsWeekend_SundayOnly(t) == DayOf(t) % 7 \in {6}

\* now.strftime('%A') in ['Saturday', 'Sunday']
IsWeekend(t) == DayOf(t) % 7 \in {5, 6}

PlanAt == 5                     \* "00:05"
StatsAt == 23 * 60 + 55         \* "23:55"
HealthEvery == 60               \* every().hour
SweepEvery == 30                \* every(30).minutes
SleepMinutes == 1               \* time.sleep(60)
StartOffset == 5                \* now.minute + 5
MaxJitter == 15                 \* random.randint(-15, 15)
MaxDelay == 30                  \* random.randint(0, 30)

\* the draws of the two random.randint calls that the model follows
Jitters == {0 - MaxJitter, 0, MaxJitter}
Delays == {0, MaxDelay}

\* schedule: the first/next run of every().day.at(at), seen at time t
NextDaily(at, t) ==
    IF at > TimeOfDay(t) THEN DayStart(t) + at
    ELSE DayStart(t) + MinutesPerDay + at

\* schedule.every().day.at(at).do(...)
DailyJob(id, kind, at, t, scheduled_time) ==
    [id |-> id, kind |-> kind, at |-> at, every |-> 0,
     next_run |-> NextDaily(at, t), scheduled_time |-> scheduled_time,
     runs |-> 0]

\* schedule.every(n).minutes.do(...)
EveryJob(id, kind, n, t) ==
    [id |-> id, kind |-> kind, at |-> 0, every |-> n,
     next_run |-> t + n, scheduled_time |-> 0, runs |-> 0]

\* schedule: Job._schedule_next_run after a run at time t
Reschedule(job, t) ==
    IF job.every > 0 THEN [job EXCEPT !.next_run = t + job.every]
    ELSE [job EXCEPT !.next_run = NextDaily(job.at, t)]

\* _setup_schedule(): schedule.clear() and the four fixed jobs
_setup_schedule(t, n) ==
    << DailyJob(n + 1, "plan", PlanAt, t, 0),
       EveryJob(n + 2, "health", HealthEvery, t),
       DailyJob(n + 3, "stats", StatsAt, t, 0),
       EveryJob(n + 4, "sweep", SweepEvery, t) >>

\* sorted(): ascending, equal elements keep their order
RECURSIVE InsertTime(_, _)
InsertTime(s, x) ==
    IF s = <<>> THEN <<x>>
    ELSE IF x < Head(s) THEN <<x>> \o s
    ELSE <<Head(s)>> \o InsertTime(Tail(s), x)

RECURSIVE SortTimes(_)
SortTimes(s) ==
    IF s = <<>> THEN <<>>
    ELSE InsertTime(SortTimes(SubSeq(s, 1, Len(s) - 1)), s[Len(s)])

\* mutant: a single commit is put at the start of the window
_generate_commit_times_SingleAtStart(num_commits, start_hour, end_hour, t, sec, jit) ==
    LET start0 == DayStart(t) + start_hour * 60
        end_time == DayStart(t) + end_hour * 60
        late == start0 < t \/ (start0 = t /\ sec > 0)
    IN  IF start_hour \notin 0..23 \/ end_hour \notin 0..23
        THEN [raises |-> TRUE, late |-> FALSE, times |-> <<>>]    \* now.replace(hour=24+): ValueError
        ELSE IF late /\ (t % 60) + StartOffset > 59
        THEN [raises |-> TRUE, late |-> late, times |-> <<>>]     \* now.replace(minute=60+): ValueError
        ELSE
        LET start_time == IF late THEN t + StartOffset ELSE start0
            total == end_time - start_time
            clamp(x) == IF x < start_time THEN start_time
                        ELSE IF x > end_time THEN end_time ELSE x
        IN  IF num_commits <= 0 THEN [raises |-> FALSE, late |-> late, times |-> <<>>]
            ELSE IF num_commits = 1
            THEN [raises |-> FALSE, late |-> late, times |-> <<start_time>>]
            ELSE [raises |-> FALSE, late |-> late,
                  times |-> SortTimes(
                     [i \in 1..num_commits |->
                        clamp(start_time + ((total * (i - 1)) \div (num_commits - 1))
                              + jit[i])])]

\* mutant: the spacing is the window divided by n
_generate_commit_times_SpacingByN(num_commits, start_hour, end_hour, t, sec, jit) ==
    LET start0 == DayStart(t) + start_hour * 60
        end_time == DayStart(t) + end_hour * 60
        late == start0 < t \/ (start0 = t /\ sec > 0)
    IN  IF start_hour \notin 0..23 \/ end_hour \notin 0..23
        THEN [raises |-> TRUE, late |-> FALSE, times |-> <<>>]    \* now.replace(hour=24+): ValueError
        ELSE IF late /\ (t % 60) + StartOffset > 59
        THEN [raises |-> TRUE, late |-> late, times |-> <<>>]     \* now.replace(minute=60+): ValueError
        ELSE
        LET start_time == IF late THEN t + StartOffset ELSE start0
            total == end_time - start_time
            clamp(x) == IF x < start_time THEN start_time
                        ELSE IF x > end_time THEN end_time ELSE x
        IN  IF num_commits <= 0 THEN [raises |-> FALSE, late |-> late, times |-> <<>>]
            ELSE IF num_commits = 1
            THEN [raises |-> FALSE, late |-> late, times |-> <<start_time + (total \div 2)>>]
            ELSE [raises |-> FALSE, late |-> late,
                  times |-> SortTimes(
                     [i \in 1..num_commits |->
                        clamp(start_time + ((total * (i - 1)) \div num_commits)
                              + jit[i])])]

\* _generate_commit_times(num_commits, start_hour, end_hour) called in the
\* minute t, on the minute (sec = 0) or some seconds into it (sec = 1);
\* jit[i] is the jitter drawn for the i-th commit.  Times are whole minutes
\* (strftime("%H:%M") drops the rest).
_generate_commit_times(num_commits, start_hour, end_hour, t, sec, jit) ==
    LET start0 == DayStart(t) + start_hour * 60
        end_time == DayStart(t) + end_hour * 60
        late == start0 < t \/ (start0 = t /\ sec > 0)
    IN  IF start_hour \notin 0..23 \/ end_hour \notin 0..23
        THEN [raises |-> TRUE, late |-> FALSE, times |-> <<>>]    \* now.replace(hour=24+): ValueError
        ELSE IF late /\ (t % 60) + StartOffset > 59
        THEN [raises |-> TRUE, late |-> late, times |-> <<>>]     \* now.replace(minute=60+): ValueError
        ELSE
        LET start_time == IF late THEN t + StartOffset ELSE start0
            total == end_time - start_time
            clamp(x) == IF x < start_time THEN start_time
                        ELSE IF x > end_time THEN end_time ELSE x
        IN  IF num_commits <= 0 THEN [raises |-> FALSE, late |-> late, times |-> <<>>]
            ELSE IF num_commits = 1
            THEN [raises |-> FALSE, late |-> late, times |-> <<start_time + (total \div 2)>>]
            ELSE [raises |-> FALSE, late |-> late,
                  times |-> SortTimes(
                     [i \in 1..num_commits |->
                        clamp(start_time + ((total * (i - 1)) \div (num_commits - 1))
                              + jit[i])])]

\* a setting whose value is None
None == 0 - 1

\* _plan_daily_commits() at time t (and sec) with the draws n (number of
\* commits), jit and del (per commit): the jobs it registers, first id n0 + 1.
_plan_daily_commits(t, sec, c, n, jit, del, n0) ==
    IF IsWeekend(t) /\ ~c.weekend_activity
    THEN [raises |-> FALSE, late |-> FALSE, quota |-> 0, new |-> <<>>]
    ELSE IF c.min_commits_per_day = None \/ c.max_commits_per_day = None
    THEN [raises |-> TRUE, late |-> FALSE, quota |-> 0, new |-> <<>>]   \* randint: TypeError
    ELSE IF c.min_commits_per_day > c.max_commits_per_day
    THEN [raises |-> TRUE, late |-> FALSE, quota |-> 0, new |-> <<>>]   \* randint: ValueError
    ELSE LET g == _generate_commit_times(n, c.active_start, c.active_end, t, sec, jit)
         IN  IF g.raises THEN [raises |-> TRUE, late |-> g.late, quota |-> n, new |-> <<>>]
             ELSE [raises |-> FALSE, late |-> g.late, quota |-> n,
                   new |-> [k \in 1..Len(g.times) |->
                              LET commit_time == g.times[k] + del[k]
                              IN  DailyJob(n0 + k, "commit", TimeOfDay(commit_time),
                                           t, commit_time)]]

\* the draws _plan_daily_commits can make under configuration c: the number
\* of commits, a jitter for each when there are several and times are varied,
\* a delay for each when delays are on
PadZero(f, n, m) == [i \in 1..m |-> IF i <= n THEN f[i] ELSE 0]

JitterDraws(c, n) ==
    IF n = 1 \/ ~c.vary_commit_times
    THEN {[i \in 1..c.max_commits_per_day |-> 0]}
    ELSE {PadZero(f, n, c.max_commits_per_day) : f \in [1..n -> Jitters]}

DelayDraws(c, n) ==
    IF ~c.random_delays
    THEN {[i \in 1..c.max_commits_per_day |-> 0]}
    ELSE {PadZero(f, n, c.max_commits_per_day) : f \in [1..n -> Delays]}

PlanDraws(c) ==
    UNION {{[n |-> n, sec |-> sec, jit |-> jit, del |-> del] :
               sec \in {0, 1}, jit \in JitterDraws(c, n), del \in DelayDraws(c, n)} :
           n \in IF \/ c.min_commits_per_day = None
                     \/ c.max_commits_per_day = None
                     \/ c.min_commits_per_day > c.max_commits_per_day THEN {0}
                  ELSE c.min_commits_per_day..c.max_commits_per_day}

\* schedule.run_pending(): the jobs that should run at time t, by next_run
RECURSIVE InsertJob(_, _)
InsertJob(s, j) ==
    IF s = <<>> THEN <<j>>
    ELSE IF j.next_run < Head(s).next_run THEN <<j>> \o s
    ELSE <<Head(s)>> \o InsertJob(Tail(s), j)

RECURSIVE Runnable(_, _)
Runnable(js, t) ==
    IF js = <<>> THEN <<>>
    ELSE LET r == Runnable(SubSeq(js, 1, Len(js) - 1), t)
             j == js[Len(js)]
         IN  IF t >= j.next_run THEN InsertJob(r, j) ELSE r

\* schedule: Job.run() has returned at time t for the job `id`
Ran(js, id, t) ==
    [i \in DOMAIN js |->
        IF js[i].id = id
        THEN [Reschedule(js[i], t) EXCEPT
                !.runs = IF js[i].kind = "commit" THEN @ + 1 ELSE @]
        ELSE js[i]]

CommitJobs == {i \in DOMAIN jobs : jobs[i].kind = "commit"}

\* ============================================ Scheduler: start, stop, loop
Threads == 1..MaxThreads
NoThread == [pc |-> "unborn", work |-> <<>>, wake |-> 0]
Alive(t) == threads[t].pc \notin {"unborn", "dead"}
Executing(t) == threads[t].pc = "job"

\* _validate_configuration() without the comparison of the two quotas
_validate_configuration_NoQuotaOrder(c) ==
    /\ c.local_path_set
    /\ ~(c.min_commits_per_day = None \/ c.max_commits_per_day = None)

\* _validate_configuration(); local_path_set is false when the path is empty
\* or the "./workspace" of the default configuration
_validate_configuration(c) ==
    /\ c.local_path_set
    /\ ~(c.min_commits_per_day = None \/ c.max_commits_per_day = None)
    /\ ~(c.min_commits_per_day > c.max_commits_per_day)

\* start() on a running scheduler, setting the timetable up again
StartAlreadyRunning_Restarts ==
    /\ is_running
    /\ jobs' = _setup_schedule(now, nextJob)
    /\ nextJob' = nextJob + 4
    /\ lastOp' = [NoOp EXCEPT !.op = "start_already_running", !.returned = "False"]
    /\ UNCHANGED <<now, cfg, pending_file, stats_file, errors_file, disk, stats, nextId,
                   is_running, stop_event, scheduler_thread, threads>>

\* start() on a running scheduler: returns False at once
StartAlreadyRunning ==
    /\ is_running
    /\ lastOp' = [NoOp EXCEPT !.op = "start_already_running", !.returned = "False"]
    /\ UNCHANGED <<now, cfg, pending_file, stats_file, errors_file, disk, stats, nextId,
                   schedVars>>

\* start() with a configuration that _validate_configuration() refuses:
\* the signal handlers are installed, then it returns False
StartRejected ==
    /\ ~is_running
    /\ ~_validate_configuration(cfg)
    /\ lastOp' = [NoOp EXCEPT !.op = "start_rejected", !.returned = "False"]
    /\ UNCHANGED <<now, cfg, pending_file, stats_file, errors_file, disk, stats, nextId,
                   schedVars>>

\* start(), returning True
Start ==
    /\ ~is_running
    /\ _validate_configuration(cfg)
    /\ scheduler_thread < MaxThreads
    /\ is_running' = TRUE
    /\ stop_event' = FALSE
    /\ stats' = [stats EXCEPT !.start_time = now]
    /\ jobs' = _setup_schedule(now, nextJob)
    /\ nextJob' = nextJob + 4
    /\ scheduler_thread' = scheduler_thread + 1
    /\ threads' = [threads EXCEPT ![scheduler_thread + 1] =
                      [pc |-> "start", work |-> <<>>, wake |-> 0]]
    /\ lastOp' = [NoOp EXCEPT !.op = "start", !.returned = "True"]
    /\ UNCHANGED <<now, cfg, pending_file, stats_file, errors_file, disk, nextId>>

\* stop() that sets the event and leaves the flag
Stop_EventOnly ==
    /\ is_running
    /\ stop_event' = TRUE
    /\ lastOp' = [NoOp EXCEPT !.op = "stop", !.returned = "True"]
    /\ UNCHANGED <<now, cfg, pending_file, stats_file, errors_file, disk, stats, nextId,
                   is_running, scheduler_thread, threads, jobs, nextJob>>

\* stop() on a scheduler that is not running: returns True at once
StopAlreadyStopped ==
    /\ ~is_running
    /\ lastOp' = [NoOp EXCEPT !.op = "stop_already_stopped", !.returned = "True"]
    /\ UNCHANGED <<now, cfg, pending_file, stats_file, errors_file, disk, stats, nextId,
                   schedVars>>

\* stop(), returning True: the join gives up after 10 seconds, the loop
\* sleeps 60, so the thread may well be alive when stop() returns
Stop ==
    /\ is_running
    /\ is_running' = FALSE
    /\ stop_event' = TRUE
    /\ lastOp' = [NoOp EXCEPT !.op = "stop", !.returned = "True"]
    /\ UNCHANGED <<now, cfg, pending_file, stats_file, errors_file, disk, stats, nextId,
                   scheduler_thread, threads, jobs, nextJob>>

\* create_test_commit() that counts the commit it created
CreateTestCommit_Counted(outcome) ==
    /\ outcome \in {"producer_raises", "port_raises", "ok"}
    /\ stats' = IF outcome = "ok" THEN [stats EXCEPT !.commits_created = @ + 1]
                ELSE stats
    /\ lastOp' = [NoOp EXCEPT !.op = "create_test_commit",
                     !.calls = IF outcome = "producer_raises" THEN <<>>
                               ELSE <<[id |-> 0, payload |-> MaxPayload]>>,
                     !.won = IF outcome = "ok" THEN {0} ELSE {},
                     !.returned = IF outcome = "ok" THEN "True" ELSE "False"]
    /\ UNCHANGED <<now, cfg, pending_file, stats_file, errors_file, disk, nextId,
                   schedVars>>

\* create_test_commit(): the Change Producer raises, or the Repository Port
\* is called and raises, or it returns the hash; every exception is caught
CreateTestCommit(outcome) ==
    /\ outcome \in {"producer_raises", "port_raises", "ok"}
    /\ lastOp' = [NoOp EXCEPT !.op = "create_test_commit",
                     !.calls = IF outcome = "producer_raises" THEN <<>>
                               ELSE <<[id |-> 0, payload |-> MaxPayload]>>,
                     !.won = IF outcome = "ok" THEN {0} ELSE {},
                     !.returned = IF outcome = "ok" THEN "True" ELSE "False"]
    /\ UNCHANGED <<now, cfg, pending_file, stats_file, errors_file, disk, stats, nextId,
                   schedVars>>

\* _run_scheduler(): the call of _plan_daily_commits() before the loop; an
\* exception here ends the thread
ThreadPlan(t, d) ==
    /\ threads[t].pc = "start"
    /\ LET p == _plan_daily_commits(now, d.sec, cfg, d.n, d.jit, d.del, nextJob)
       IN  /\ jobs' = jobs \o p.new
           /\ nextJob' = nextJob + Len(p.new)
           /\ threads' = [threads EXCEPT ![t].pc = IF p.raises THEN "dead" ELSE "loop"]
           /\ lastOp' = [NoOp EXCEPT !.op = "plan_at_start", !.quota = p.quota,
                                      !.late = p.late]
    /\ UNCHANGED <<now, cfg, pending_file, stats_file, errors_file, disk, stats, nextId,
                   is_running, stop_event, scheduler_thread>>

AtLoopTest(t) ==
    \/ threads[t].pc = "loop"
    \/ threads[t].pc = "sleep" /\ now >= threads[t].wake

\* the loop condition is false: the thread ends
ThreadExit(t) ==
    /\ AtLoopTest(t)
    /\ ~(is_running /\ ~stop_event)
    /\ threads' = [threads EXCEPT ![t] = [pc |-> "dead", work |-> <<>>, wake |-> 0]]
    /\ UNCHANGED <<now, cfg, storeVars, is_running, stop_event, scheduler_thread,
                   jobs, nextJob>>

\* the loop condition is true: schedule.run_pending() lists the jobs to run
\* and starts the first, or there is none and the thread sleeps
RunPending(t) ==
    /\ AtLoopTest(t)
    /\ is_running /\ ~stop_event
    /\ LET r == Runnable(jobs, now)
       IN  threads' = [threads EXCEPT ![t] =
                          IF r = <<>>
                          THEN [pc |-> "sleep", work |-> <<>>, wake |-> now + SleepMinutes]
                          ELSE [pc |-> "job", work |-> r, wake |-> 0]]
    /\ UNCHANGED <<now, cfg, storeVars, is_running, stop_event, scheduler_thread,
                   jobs, nextJob>>

\* the job in hand has returned: the next of the list starts, or the thread
\* sleeps
JobDone(t) ==
    threads' = [threads EXCEPT ![t] =
                   IF Len(threads[t].work) > 1
                   THEN [pc |-> "job", work |-> Tail(threads[t].work), wake |-> 0]
                   ELSE [pc |-> "sleep", work |-> <<>>, wake |-> now + SleepMinutes]]

InJob(t, kind) == threads[t].pc = "job" /\ Head(threads[t].work).kind = kind

\* a commit job: _create_scheduled_commit(scheduled_time=...)
JobCommit(t, outcome) ==
    /\ InJob(t, "commit")
    /\ outcome # "empty" => Counted < MaxTotal
    /\ create_scheduled_commit(Head(threads[t].work).scheduled_time, outcome, MaxPayload)
    /\ jobs' = Ran(jobs, Head(threads[t].work).id, now)
    /\ JobDone(t)
    /\ UNCHANGED <<now, cfg, is_running, stop_event, scheduler_thread, nextJob>>

\* the sweep job: _process_pending_commits()
JobSweep(t) ==
    /\ InJob(t, "sweep")
    /\ process_pending_commits
    /\ jobs' = Ran(jobs, Head(threads[t].work).id, now)
    /\ JobDone(t)
    /\ UNCHANGED <<now, cfg, is_running, stop_event, scheduler_thread, nextJob>>

\* the 00:05 job: _plan_daily_commits(); an exception leaves run_pending and
\* is caught by the loop, which counts it and sleeps
JobPlan(t, d) ==
    /\ InJob(t, "plan")
    /\ LET p == _plan_daily_commits(now, d.sec, cfg, d.n, d.jit, d.del, nextJob)
       IN  /\ nextJob' = nextJob + Len(p.new)
           /\ lastOp' = [NoOp EXCEPT !.op = "plan_at_rollover", !.quota = p.quota,
                                      !.late = p.late]
           /\ IF p.raises
              THEN /\ Counted < MaxTotal
                   /\ stats' = [stats EXCEPT !.errors = @ + 1]
                   /\ threads' = [threads EXCEPT ![t] =
                          [pc |-> "sleep", work |-> <<>>, wake |-> now + SleepMinutes]]
                   /\ UNCHANGED jobs
              ELSE /\ jobs' = Ran(jobs \o p.new, Head(threads[t].work).id, now)
                   /\ JobDone(t)
                   /\ UNCHANGED stats
    /\ UNCHANGED <<now, cfg, pending_file, stats_file, errors_file, disk, nextId,
                   is_running, stop_event, scheduler_thread>>

\* the hourly job: _health_check() reads and logs
JobHealth(t) ==
    /\ InJob(t, "health")
    /\ jobs' = Ran(jobs, Head(threads[t].work).id, now)
    /\ JobDone(t)
    /\ lastOp' = [NoOp EXCEPT !.op = "_health_check"]
    /\ UNCHANGED <<now, cfg, pending_file, stats_file, errors_file, disk, stats, nextId,
                   is_running, stop_event, scheduler_thread, nextJob>>

\* the 23:55 job resetting start_time with the counters
JobStats_ResetsStartTime(t) ==
    /\ InJob(t, "stats")
    /\ stats' = [stats EXCEPT !.commits_created = 0, !.errors = 0, !.start_time = 0]
    /\ jobs' = Ran(jobs, Head(threads[t].work).id, now)
    /\ JobDone(t)
    /\ lastOp' = [NoOp EXCEPT !.op = "_log_daily_stats"]
    /\ UNCHANGED <<now, cfg, pending_file, stats_file, errors_file, disk, nextId,
                   is_running, stop_event, scheduler_thread, nextJob>>

\* the 23:55 job: _log_daily_stats() logs and resets the rolling counters
JobStats(t) ==
    /\ InJob(t, "stats")
    /\ stats' = [stats EXCEPT !.commits_created = 0, !.errors = 0]
    /\ jobs' = Ran(jobs, Head(threads[t].work).id, now)
    /\ JobDone(t)
    /\ lastOp' = [NoOp EXCEPT !.op = "_log_daily_stats"]
    /\ UNCHANGED <<now, cfg, pending_file, stats_file, errors_file, disk, nextId,
                   is_running, stop_event, scheduler_thread, nextJob>>

\* Time passes to the next moment a job of the timetable is due, once every
\* living thread has made its check for the present minute and sleeps.
LastMinute == 5 * MinutesPerDay + HorizonMinutes
Advance ==
    /\ \A t \in Threads : Alive(t) => threads[t].pc = "sleep" /\ threads[t].wake > now
    /\ LET S == {jobs[i].next_run : i \in DOMAIN jobs} \cap (now + 1 .. LastMinute)
       IN  /\ S # {}
           /\ now' = CHOOSE x \in S : \A y \in S : x <= y
    /\ lastOp' = NoOp
    /\ UNCHANGED <<cfg, pending_file, stats_file, errors_file, disk, stats, nextId, schedVars>>

\* ====================================================== ConfigManager
\* _validate_config(), run when the configuration is loaded or reloaded
_validate_config(c) ==
    /\ ~(c.min_commits_per_day = None \/ c.max_commits_per_day = None)
    /\ ~(c.min_commits_per_day > c.max_commits_per_day)
    /\ ~(c.min_commits_per_day < 0)
    /\ ~(c.max_commits_per_day > 100)
    /\ c.active_start \in 0..23
    /\ c.active_end \in 0..23
    /\ ~(c.active_start >= c.active_end)

\* set(key, value): the value is stored as it is
ConfigSet(key, value) ==
    /\ cfg[key] # value
    /\ cfg' = [cfg EXCEPT ![key] = value]
    /\ lastOp' = [NoOp EXCEPT !.op = "set"]
    /\ UNCHANGED <<now, pending_file, stats_file, errors_file, disk, stats, nextId, schedVars>>

\* ================================================================= claims
MinOf(S) == CHOOSE x \in S : \A y \in S : x <= y
LastItem == pending_file[Len(pending_file)]

\* C1: an item that fails on every attempt is retried by the sweep exactly
\* maxAttempts - 1 times and is then removed: no item that a sweep has
\* already retried maxAttempts - 1 times (or, with maxAttempts = 1, at all)
\* is still in the persisted queue.
C1_RetriedMaxAttemptsMinusOne ==
    \A i \in 1..Len(pending_file) :
        pending_file[i].tries < Max(cfg.retry_attempts - 1, 1)

\* C3: the persisted retry queue never holds more than max_queue_size items.
C3_QueueBounded == Len(pending_file) <= cfg.max_queue_size

C3_Witness ==
    /\ Len(pending_file) = cfg.max_queue_size
    /\ lastOp.evicted # {}

\* C4: an enqueue keeps the queue in insertion order with the new item last,
\* and removes an item only when the queue was full, and then exactly the
\* oldest one; max_queue_size + 1 enqueues into an empty queue leave the
\* items 2 .. max_queue_size + 1.
C4_EvictsOldestOnly ==
    IsEnqueue(lastOp) =>
        LET new == CHOOSE x \in lastOp.added : TRUE
            full == Cardinality(lastOp.before) >= cfg.max_queue_size
            gone == IF full THEN {MinOf(lastOp.before)} ELSE {}
        IN  /\ Ids(pending_file) = (lastOp.before \cup {new}) \ gone
            /\ lastOp.evicted = gone
            /\ \A i, j \in 1..Len(pending_file) :
                   i < j => pending_file[i].id < pending_file[j].id
            /\ LastItem.id = new
            /\ (lastOp.before = 1..cfg.max_queue_size /\ new = cfg.max_queue_size + 1)
                   => /\ Len(pending_file) = cfg.max_queue_size
                      /\ \A i \in 1..Len(pending_file) : pending_file[i].id = i + 1

C4_Witness ==
    /\ IsEnqueue(lastOp)
    /\ lastOp.before = 1..cfg.max_queue_size
    /\ lastOp.evicted = {1}
    /\ Len(pending_file) = cfg.max_queue_size
    /\ cfg.max_queue_size > 1

\* C5: after every completed statistics update the persisted statistics
\* satisfy total_commits = successful_commits + failed_commits.
C5_TotalIsSum ==
    stats_file.total_commits
        = stats_file.successful_commits + stats_file.failed_commits

C5_Witness ==
    /\ lastOp.op = "process_pending_commits"
    /\ stats_file.successful_commits > 0
    /\ stats_file.failed_commits > 1

\* C8: when an enqueue has returned, the last item of the
\* persisted queue is the new one, with retry_count 0, next_retry = now +
\* retry delay and max_retries taken from the configuration.
C8_ItemCarriesMaxAttempts ==
    IsEnqueue(lastOp) =>
        /\ pending_file # <<>>
        /\ LastItem.id \in lastOp.added
        /\ LastItem.retry_count = 0
        /\ LastItem.next_retry = now + cfg.retry_delay_minutes
        /\ HasKey(LastItem, "max_retries")
        /\ LastItem.max_retries = cfg.retry_attempts

\* C9: a scheduled execution that fails records exactly one failure in the
\* persisted statistics and adds exactly one item to the retry queue if and
\* only if queue_failed_commits is enabled.
C9_FailureRecordedOnce ==
    [][(lastOp'.op = "create_scheduled_commit_failed"
            /\ stats'.errors = stats.errors + 1)
         => /\ stats_file'.failed_commits = stats_file.failed_commits + 1
            /\ stats_file'.total_commits = stats_file.total_commits + 1
            /\ IF cfg.queue_failed_commits
               THEN Ids(pending_file') \ Ids(pending_file) = {nextId'}
               ELSE pending_file' = pending_file]_vars

\* C10: every item of the persisted queue carries the payload of the failed
\* unit of work, and a sweep calls the Repository Port once for every due
\* item it retries.
C10_PayloadReplayed ==
    /\ \A i \in 1..Len(pending_file) :
           /\ HasKey(pending_file[i], "commit_data")
           /\ pending_file[i].commit_data \in Payloads
    /\ lastOp.op \in {"process_pending_commits", "_process_pending_commits"}
           => \A id \in lastOp.due :
                  \E k \in 1..Len(lastOp.calls) : lastOp.calls[k].id = id

\* C11: a sweep of ErrorHandler removes from the persisted queue every due
\* item whose retry succeeded, adds exactly one to successful_commits for
\* each of them, and no item that has left the queue ever comes back.
C11_SuccessRemoves ==
    [][/\ lastOp'.op = "process_pending_commits"
           => /\ lastOp'.won \cap Ids(pending_file') = {}
              /\ lastOp'.won \subseteq Ids(pending_file)
              /\ stats_file'.successful_commits
                     = stats_file.successful_commits + Cardinality(lastOp'.won)
        /\ Ids(pending_file') \ Ids(pending_file) \subseteq (nextId + 1)..nextId']_vars

C11_Witness ==
    /\ lastOp.op = "process_pending_commits"
    /\ lastOp.won # {}
    /\ pending_file # <<>>
    /\ stats_file.successful_commits > 0

\* C12: a scheduled execution for which the Change Producer returns nothing
\* is skipped: the Repository Port is not called, and the retry queue, the
\* rolling counters and the persisted statistics stay as they were.
C12_EmptyPayloadSkipped ==
    [][lastOp'.op = "create_scheduled_commit_skip"
        => /\ lastOp'.calls = <<>>
           /\ lastOp'.added = {}
           /\ pending_file' = pending_file
           /\ stats' = stats
           /\ stats_file' = stats_file
           /\ errors_file' = errors_file]_vars

C12_Witness ==
    /\ lastOp.op = "create_scheduled_commit_skip"
    /\ pending_file # <<>>
    /\ stats.commits_created > 0
    /\ stats.errors > 0

\* C2: for any sequence of start() and stop() calls at most one background
\* loop is alive at any time, and at most one job of the timetable (commit
\* job, retry sweep or other) is executing at any instant.
C2_SingleLoop ==
    /\ Cardinality({t \in Threads : Alive(t)}) <= 1
    /\ Cardinality({t \in Threads : Executing(t)}) <= 1

\* C6: after the re-planning at the day rollover the timetable holds only
\* commit jobs of the new day's plan: as many as the quota drawn for the new
\* day (none on a weekend without weekend activity), each planned for today.
C6_PlanDiscardedAtRollover ==
    lastOp.op = "plan_at_rollover" =>
        /\ Cardinality(CommitJobs) = lastOp.quota
        /\ \A i \in CommitJobs : DayOf(jobs[i].scheduled_time) = DayOf(now)

\* C7: while the scheduler is running, a commit job of the timetable is
\* invoked at most once on its day, it has been invoked once the loop has
\* made its check at or after the job's timestamp, and no two invocations
\* overlap.
C7_FiresExactlyOnce ==
    /\ \A i \in CommitJobs : jobs[i].runs <= 1
    /\ Cardinality({t \in Threads : InJob(t, "commit")}) <= 1
    /\ (/\ is_running
        /\ \A t \in Threads : Alive(t) => threads[t].pc = "sleep" /\ threads[t].wake > now)
       => \A i \in CommitJobs :
              (DayOf(jobs[i].scheduled_time) = DayOf(now) /\ jobs[i].scheduled_time <= now)
                  => jobs[i].runs = 1

\* the active window of the day of `now`
ActiveStart == DayStart(now) + cfg.active_start * 60
ActiveEnd == DayStart(now) + cfg.active_end * 60
Planned == lastOp.op = "plan_at_start"
PlanRaised == Planned /\ \E t \in Threads : threads[t].pc = "dead"
\* the timestamps registered by the planning run, in registration order
PlanTimestamps == [k \in 1..Len(jobs) - 4 |-> jobs[k + 4].scheduled_time]

\* C13: every timestamp at which a planning run registers a commit job lies
\* within [activeStart, activeEnd] of the day of planning.
C13_WithinActiveHours ==
    Planned =>
        \A k \in 1..Len(PlanTimestamps) :
            ActiveStart <= PlanTimestamps[k] /\ PlanTimestamps[k] <= ActiveEnd

PlanningAllowed == ~(IsWeekend(now) /\ ~cfg.weekend_activity)
NoJitter == ~cfg.vary_commit_times /\ ~cfg.random_delays

\* C14: on a day on which planning is allowed the number of commit jobs a
\* planning run registers is the number drawn, and it lies between
\* min_commits_per_day and max_commits_per_day.
C14_QuotaPlanned ==
    (Planned /\ PlanningAllowed) =>
        /\ Len(PlanTimestamps) = lastOp.quota
        /\ cfg.min_commits_per_day <= Len(PlanTimestamps)
        /\ Len(PlanTimestamps) <= cfg.max_commits_per_day

\* C15: the timestamps a planning run registers are in non-decreasing order.
C15_PlanSorted ==
    Planned =>
        \A k \in 1..Len(PlanTimestamps) - 1 : PlanTimestamps[k] <= PlanTimestamps[k + 1]

\* C16: with n = 1 and no jitter the plan has exactly one timestamp, the
\* midpoint of the active window.
C16_SingleAtMidpoint ==
    (Planned /\ PlanningAllowed /\ NoJitter /\ lastOp.quota = 1) =>
        PlanTimestamps = <<ActiveStart + ((ActiveEnd - ActiveStart) \div 2)>>

\* C16 (amended): with n = 1 and no jitter, a plan computed no later than
\* the window's start instant has exactly one timestamp, the midpoint of the
\* active window; for active hours 9-21 on a Tuesday that is 15:00.
C16_SingleAtMidpointBeforeStart ==
    (Planned /\ PlanningAllowed /\ NoJitter /\ lastOp.quota = 1 /\ ~lastOp.late) =>
        /\ PlanTimestamps = <<ActiveStart + ((ActiveEnd - ActiveStart) \div 2)>>
        /\ (cfg.active_start = 9 /\ cfg.active_end = 21 /\ DayOf(now) = 1)
               => PlanTimestamps = <<MinutesPerDay + 15 * 60>>

C16_Witness ==
    /\ Planned /\ NoJitter /\ lastOp.quota = 1 /\ ~lastOp.late
    /\ cfg.active_start = 9 /\ cfg.active_end = 21 /\ DayOf(now) = 1
    /\ cfg.min_commits_per_day = 1 /\ cfg.max_commits_per_day = 1
    /\ ~cfg.weekend_activity
    /\ PlanTimestamps = <<MinutesPerDay + 15 * 60>>

\* the evenly spaced timestamps of the active window
EvenlySpaced(n) ==
    [k \in 1..n |-> ActiveStart + (((ActiveEnd - ActiveStart) * (k - 1)) \div (n - 1))]

\* C17: with n > 1 and no jitter the timestamps are activeStart + i *
\* window / (n - 1), i = 0..n-1: the first is activeStart, the last activeEnd.
C17_EvenlySpaced ==
    (Planned /\ PlanningAllowed /\ NoJitter /\ lastOp.quota > 1) =>
        /\ PlanTimestamps = EvenlySpaced(lastOp.quota)
        /\ PlanTimestamps[1] = ActiveStart
        /\ PlanTimestamps[Len(PlanTimestamps)] = ActiveEnd

\* C17 (amended): the same for a plan computed no later than the window's
\* start instant; quota 3 with active hours 0-23, planned at 00:00 sharp,
\* gives 00:00, 11:30 and 23:00.
C17_EvenlySpacedBeforeStart ==
    (Planned /\ PlanningAllowed /\ NoJitter /\ lastOp.quota > 1 /\ ~lastOp.late) =>
        /\ PlanTimestamps = EvenlySpaced(lastOp.quota)
        /\ PlanTimestamps[1] = ActiveStart
        /\ PlanTimestamps[Len(PlanTimestamps)] = ActiveEnd
        /\ (cfg.active_start = 0 /\ cfg.active_end = 23 /\ lastOp.quota = 3)
               => PlanTimestamps = <<DayStart(now), DayStart(now) + 11 * 60 + 30,
                                     DayStart(now) + 23 * 60>>

C17_Witness ==
    /\ Planned /\ NoJitter /\ ~lastOp.late
    /\ cfg.active_start = 0 /\ cfg.active_end = 23
    /\ cfg.min_commits_per_day = 3 /\ cfg.max_commits_per_day = 3
    /\ PlanTimestamps = <<DayStart(now), DayStart(now) + 11 * 60 + 30,
                          DayStart(now) + 23 * 60>>

C19_LatePlanning ==
    (Planned /\ PlanningAllowed /\ lastOp.late) =>
        /\ ~PlanRaised
        /\ IF now + StartOffset > ActiveEnd
           THEN PlanTimestamps = <<>>
           ELSE /\ Len(PlanTimestamps) = lastOp.quota
                /\ \A k \in 1..Len(PlanTimestamps) : PlanTimestamps[k] >= now + StartOffset

\* what the specification calls a valid planning configuration
ValidPlanConfig(c) ==
    /\ c.min_commits_per_day <= c.max_commits_per_day
    /\ c.active_start < c.active_end
    /\ c.active_start \in 0..23
    /\ c.active_end \in 0..23

\* C20: start() and planning are rejected whenever the configuration they
\* find has min_commits_per_day > max_commits_per_day, active start >= active
\* end or an hour outside 0..23, also when the value came from set(): no
\* start() succeeds and no planning run completes under such a configuration.
C20_InvalidConfigRejected ==
    [][/\ lastOp'.op = "start" => ValidPlanConfig(cfg)
       /\ (lastOp'.op = "plan_at_start" /\ ~ValidPlanConfig(cfg))
             => /\ jobs' = jobs
                /\ \E t \in Threads : threads[t].pc = "start" /\ threads'[t].pc = "dead"]_vars

\* a step that is a call of start(), of stop()
StartCalled == lastOp' # lastOp /\ lastOp'.op \in {"start", "start_rejected", "start_already_running"}
StopCalled == lastOp' # lastOp /\ lastOp'.op \in {"stop", "stop_already_stopped"}

\* the settings start() must refuse: no repository path (or the placeholder),
\* a quota that is missing, a minimum above the maximum
InvalidForStart(c) ==
    \/ ~c.local_path_set
    \/ c.min_commits_per_day = None
    \/ c.max_commits_per_day = None
    \/ c.min_commits_per_day > c.max_commits_per_day

\* C21: start() on a stopped scheduler whose settings are invalid (path unset
\* or placeholder, a quota missing, min > max) returns False and leaves
\* is_running false, creates no thread, and leaves the stop event, the
\* counters with start_time, and the timetable as they were.
C21_InvalidStartRefused ==
    [][(StartCalled /\ ~is_running /\ InvalidForStart(cfg))
          => /\ lastOp'.returned = "False"
             /\ ~is_running'
             /\ UNCHANGED <<stop_event, scheduler_thread, threads, stats, jobs,
                            nextJob>>]_vars

C21_Witness ==
    /\ lastOp.op = "start_rejected"
    /\ cfg.local_path_set
    /\ cfg.min_commits_per_day # None /\ cfg.max_commits_per_day # None
    /\ cfg.min_commits_per_day > cfg.max_commits_per_day
    /\ scheduler_thread = 1
    /\ jobs # <<>>

\* C22: start() on a running scheduler returns False and changes nothing:
\* is_running stays true, no thread is created, the timetable, the counters
\* and start_time are as they were.
C22_SecondStartRefused ==
    [][(StartCalled /\ is_running)
          => /\ lastOp'.returned = "False"
             /\ is_running'
             /\ UNCHANGED <<stop_event, scheduler_thread, threads, stats, jobs,
                            nextJob>>]_vars

C22_Witness ==
    /\ lastOp.op = "start_already_running"
    /\ is_running
    /\ \E t \in Threads : threads[t].pc = "loop"
    /\ Len(jobs) > 4

\* C23: after a start() that returned True, at any time of day, is_running
\* is true and the thread is alive, and once the thread has made its call of
\* _plan_daily_commits() it is in the loop with the day's commit jobs
\* registered.
C23_StartedAndPlanned ==
    /\ lastOp.op = "start" =>
          is_running /\ \E t \in Threads : threads[t].pc = "start"
    /\ Planned =>
          /\ is_running
          /\ \E t \in Threads : threads[t].pc = "loop"
          /\ PlanningAllowed => Len(PlanTimestamps) = lastOp.quota

\* C24: stop() returns True without waiting for the thread beyond the join
\* timeout and leaves is_running false and the stop event set, whether or not
\* the thread has ended; stop() on a stopped scheduler changes nothing.
C24_StopStops ==
    [][StopCalled
          => /\ lastOp'.returned = "True"
             /\ ~is_running'
             /\ is_running => stop_event'
             /\ UNCHANGED <<scheduler_thread, threads, stats, jobs, nextJob>>
             /\ ~is_running => UNCHANGED stop_event]_vars

C24_Witness ==
    /\ lastOp.op = "stop"
    /\ ~is_running
    /\ \E t \in Threads : threads[t].pc = "loop"

\* a thread on which stop() has been called since it started: it is alive
\* and either is_running is false or a later start() has replaced it
Cancelled(t) == Alive(t) /\ (~is_running \/ t < scheduler_thread)

\* C25: once stop() has been called on a running scheduler the thread of
\* that moment ends at its next test of the loop condition and starts no
\* job from then on, whatever start() and stop() calls follow.
C25_CancelledLoopExits ==
    [][\A t \in Threads :
          (Cancelled(t) /\ AtLoopTest(t) /\ threads'[t] # threads[t])
             => threads'[t].pc = "dead"]_vars

\* C26: whenever get_status() reports is_running = true a loop thread is
\* alive: no failure of planning, of a job or of a sweep ends the thread
\* while the scheduler still counts as running.
C26_RunningHasLoop ==
    is_running => \E t \in Threads : Alive(t)

\* the two sweeps: ErrorHandler.process_pending_commits and
\* Scheduler._process_pending_commits
SweepOps == {"process_pending_commits", "_process_pending_commits"}

\* C27: after every completed sweep, of either implementation, the
\* pending_commits of the persisted statistics is the number of items in the
\* persisted retry queue.
C27_PendingStatMatchesQueue ==
    lastOp.op \in SweepOps => stats_file.pending_commits = Len(pending_file)

\* the state after one failed scheduled execution and one sweep, with
\* maxAttempts = 2 and no retry delay, and nothing else recorded so far
OneExecutionOneSweep ==
    /\ cfg.retry_attempts = 2 /\ cfg.retry_delay_minutes = 0
    /\ cfg.queue_failed_commits
    /\ nextId = 1
    /\ stats.errors = 1 /\ stats.commits_created = 0
    /\ errors_file = <<>>
    /\ Len(pending_file) = 1
    /\ pending_file[1].writer = "Scheduler"
    /\ pending_file[1].tries = 1

\* C28: with a Repository Port that always fails, maxAttempts = 2 and no
\* retry delay, the second sweep after one scheduled execution leaves the
\* queue empty, failed_commits of the persisted statistics at 2 or more, and
\* a record of the exhaustion in the statistics or the error log.
C28_ExhaustionAccounted ==
    [][(/\ OneExecutionOneSweep
        /\ lastOp'.op \in SweepOps /\ lastOp'.won = {}
        /\ now' = now /\ pending_file' # pending_file)
          => /\ pending_file' = <<>>
             /\ stats_file'.failed_commits >= 2
             /\ stats_file' # stats_file \/ errors_file' # errors_file]_vars

\* C29: every enqueue that drops an item because the queue is full writes a
\* record of it: no item is evicted in a step that leaves both the persisted
\* statistics and the error log as they were.
C29_EvictionRecorded ==
    [][(lastOp' # lastOp /\ lastOp'.evicted # {})
          => (stats_file' # stats_file \/ errors_file' # errors_file)]_vars

\* C30: every handle_commit_error call appends its record to the persisted
\* error log and then keeps the last max_stored_errors records: the log has
\* min(old length + 1, max_stored_errors) entries, the new one last and the
\* most recent old ones before it in their order - so after k calls it holds
\* the min(k, max_stored_errors) most recent records in order of occurrence.
C30_ErrorLogKeepsLatest ==
    [][(lastOp'.op = "handle_commit_error" /\ stats_file' # stats_file)
          => LET n == Len(errors_file')
                 m == Len(errors_file)
             IN  /\ n = Min(m + 1, max_stored_errors)
                 /\ errors_file'[n] = now
                 /\ \A i \in 1..n - 1 : errors_file'[i] = errors_file[m - (n - 1) + i]]_vars

C30_Witness ==
    /\ lastOp.op = "handle_commit_error"
    /\ ~cfg.queue_failed_commits
    /\ stats_file.failed_commits = max_stored_errors + 1
    /\ Len(errors_file) = max_stored_errors
    /\ errors_file[1] < errors_file[Len(errors_file)]

\* C32: a new Scheduler is not running; create_test_commit, whether it
\* succeeds or fails, leaves is_running, the timetable, the rolling counters
\* and the retry queue as they were, and returns True exactly when the
\* Repository Port created the commit.
C32_TestCommitBypasses ==
    /\ ~is_running
    /\ [][(lastOp' # lastOp /\ lastOp'.op = "create_test_commit")
             => /\ UNCHANGED <<is_running, stop_event, scheduler_thread, threads,
                               jobs, nextJob, stats, pending_file, stats_file>>
                /\ lastOp'.returned \in {"True", "False"}
                /\ lastOp'.returned = "True" <=> lastOp'.won # {}
                /\ lastOp'.won # {} => lastOp'.calls # <<>>]_vars

C32_Witness ==
    /\ lastOp.op = "create_test_commit"
    /\ lastOp.returned = "False" /\ lastOp.calls # <<>>
    /\ is_running
    /\ Len(jobs) > 4

\* the attempts an item is allowed: its own max_retries when ErrorHandler
\* wrote it, the configured retry_attempts otherwise
MaxAttemptsOf(item) ==
    IF HasKey(item, "max_retries") THEN item.max_retries ELSE cfg.retry_attempts

\* C34: every item of the persisted retry queue has 0 <= retry_count <=
\* maxAttempts and next_retry no earlier than the time it was enqueued.
C34_ItemsWellFormed ==
    \A k \in 1..Len(pending_file) :
        /\ 0 <= pending_file[k].retry_count
        /\ pending_file[k].retry_count <= MaxAttemptsOf(pending_file[k])
        /\ pending_file[k].next_retry >= pending_file[k].added_at

C34_Witness ==
    /\ Len(pending_file) = 2
    /\ pending_file[1].writer = "Scheduler" /\ pending_file[1].retry_count = 1
    /\ pending_file[2].writer = "ErrorHandler" /\ pending_file[2].retry_count = 1
    /\ pending_file[2].next_retry > pending_file[2].added_at

\* the item of queue q with identity id
ItemOf(q, id) == q[CHOOSE k \in 1..Len(q) : q[k].id = id]

Registered(js) ==
    [k \in 1..Len(js) |->
        [id |-> js[k].id, kind |-> js[k].kind, at |-> js[k].at,
         every |-> js[k].every, scheduled_time |-> js[k].scheduled_time]]

\* C37: _log_daily_stats sets commits_created and errors to 0 and changes
\* nothing else: the persisted statistics, the retry queue, the error log,
\* last_commit_time, start_time, is_running with the stop event, and the
\* registered jobs are as they were.
C37_DailyResetOnly ==
    [][(lastOp' # lastOp /\ lastOp'.op = "_log_daily_stats")
          => /\ stats' = [stats EXCEPT !.commits_created = 0, !.errors = 0]
             /\ Registered(jobs') = Registered(jobs)
             /\ UNCHANGED <<stats_file, pending_file, errors_file, disk, is_running,
                            stop_event, scheduler_thread, cfg>>]_vars

C37_Witness ==
    /\ lastOp.op = "_log_daily_stats"
    /\ stats.commits_created = 0 /\ stats.errors = 0
    /\ stats.last_commit_time # 0
    /\ pending_file # <<>>
    /\ is_running

\* C38: every item that a sweep takes as due and does not retry with
\* success - the retry reports failure or raises, whatever keys the item has
\* - is removed by that sweep or has its retry_count increased.
C38_FailedRetryProgresses ==
    [][(lastOp'.op \in SweepOps /\ now' = now /\ pending_file' # pending_file)
          => \A id \in lastOp'.due \ lastOp'.won :
                id \in Ids(pending_file')
                   => ItemOf(pending_file', id).retry_count
                         > ItemOf(pending_file, id).retry_count]_vars

\* C40: a sweep adds no item, and leaves every item that is not due
\* (next_retry > now) in the queue as it was - retry_count, next_retry and
\* payload - and the items that remain keep their relative order.
C40_SweepFrame ==
    [][(lastOp'.op \in SweepOps /\ now' = now /\ pending_file' # pending_file)
          => /\ Ids(pending_file') \subseteq Ids(pending_file)
             /\ \A k \in 1..Len(pending_file) :
                   pending_file[k].next_retry > now
                      => /\ pending_file[k].id \in Ids(pending_file')
                         /\ ItemOf(pending_file', pending_file[k].id) = pending_file[k]
             /\ \A i, j \in 1..Len(pending_file') :
                   i < j =>
                     \E a, b \in 1..Len(pending_file) :
                        /\ a < b
                        /\ pending_file[a].id = pending_file'[i].id
                        /\ pending_file[b].id = pending_file'[j].id]_vars

C40_Witness ==
    /\ lastOp.op \in SweepOps
    /\ Len(pending_file) = 2
    /\ pending_file[1].id \in lastOp.due /\ pending_file[1].retry_count = 1
    /\ pending_file[2].next_retry > now /\ pending_file[2].retry_count = 0
    /\ pending_file[2].tries = 0

\* the ids of the retries a sweep made, in the order it made them
CallIds == [k \in 1..Len(lastOp'.calls) |-> lastOp'.calls[k].id]

\* C35: a sweep at time now retries exactly the items with next_retry <= now,
\* in ascending order of next_retry, and decides which items are due without
\* removing any: an item that is not due is still in the queue afterwards.
C35_DueInRetryOrder ==
    [][(lastOp'.op = "process_pending_commits" /\ now' = now
           /\ pending_file' # pending_file)
          => /\ {CallIds[k] : k \in 1..Len(CallIds)}
                  = {pending_file[k].id : k \in {j \in 1..Len(pending_file) :
                                                   pending_file[j].next_retry <= now}}
             /\ \A i, j \in 1..Len(CallIds) :
                   i < j => ItemOf(pending_file, CallIds[i]).next_retry
                               <= ItemOf(pending_file, CallIds[j]).next_retry
             /\ \A k \in 1..Len(pending_file) :
                   pending_file[k].next_retry > now
                      => pending_file[k].id \in Ids(pending_file')]_vars

\* C31: whatever the state of the queue file - missing, unparsable - an
\* enqueue proceeds as if the queue were empty: after it the file is
\* readable and holds the new item.
C31_EnqueueSurvivesBadFile ==
    [][(/\ lastOp'.op \in {"handle_commit_error", "create_scheduled_commit_failed"}
        /\ lastOp'.returned # "none"
        /\ stats_file' # stats_file \/ stats' # stats)
          => /\ lastOp'.returned = "enqueued"
             /\ disk' = "ok"
             /\ lastOp'.added # {}
             /\ lastOp'.added \subseteq Ids(pending_file')]_vars

\* C39: after a crash of the process during a write of the queue file, the
\* file is readable and holds either all the items it held before the
\* operation or all the items the operation was writing; checked for the
\* crashes that find items in the file.
C39_CrashKeepsQueue ==
    (lastOp.op = "crash_in_write" /\ lastOp.before # {}) =>
        /\ disk = "ok"
        /\ \/ Ids(pending_file) = lastOp.before
           \/ Ids(pending_file) = (lastOp.before \ lastOp.evicted) \cup lastOp.added

\* C33: a sweep whose read and write are interleaved with an enqueue or a
\* clear by another thread gives the result of some serial order: the items
\* enqueued since the sweep read the file are in the file after its write,
\* and its write brings back no item that was no longer in the file.
C33_SweepSerializable ==
    [][(lastOp'.op = "process_pending_commits" /\ now' = now
           /\ threads' # threads)
          => /\ \A id \in Ids(pending_file) \ lastOp'.before :
                   id \in Ids(pending_file')
             /\ Ids(pending_file') \subseteq Ids(pending_file)]_vars

\* ------------------------------------------------------------------ specs
Init ==
    /\ now = 0
    /\ cfg \in Configs
    /\ pending_file = <<>>
    /\ stats_file = default_stats
    /\ errors_file = <<>>
    /\ disk = "ok"
    /\ stats = scheduler_stats
    /\ nextId = 0
    /\ lastOp = NoOp
    /\ is_running = FALSE
    /\ stop_event = FALSE
    /\ scheduler_thread = 0
    /\ threads = [t \in Threads |-> NoThread]
    /\ jobs = <<>>
    /\ nextJob = 0

Next ==
    \/ \E d \in Payloads \cup {NoData} : HandleCommitError(d)
    \/ \E outs \in [1..Len(pending_file) -> Outcomes] : ProcessPendingCommits(outs)
    \/ ClearPendingQueue
    \/ \E o \in CommitOutcomes : CreateScheduledCommit(o, MaxPayload)
    \/ SchedulerProcessPending
    \/ Tick

Spec == Init /\ [][Next]_vars

\* ------------- the queue file missing at first, crashes during writes
DiskConfigs ==
    {c \in Configs : /\ c.retry_attempts = MaxRetryAttempts
                     /\ c.retry_delay_minutes = 0
                     /\ c.queue_failed_commits}

DiskInit ==
    /\ now = 0
    /\ cfg \in DiskConfigs
    /\ pending_file = <<>>
    /\ stats_file = default_stats
    /\ errors_file = <<>>
    /\ disk \in {"ok", "missing"}
    /\ stats = scheduler_stats
    /\ nextId = 0
    /\ lastOp = NoOp
    /\ is_running = FALSE
    /\ stop_event = FALSE
    /\ scheduler_thread = 0
    /\ threads = [t \in Threads |-> NoThread]
    /\ jobs = <<>>
    /\ nextJob = 0

DiskNext ==
    \/ \E d \in Payloads : HandleCommitError(d)
    \/ \E outs \in [1..Len(pending_file) -> Outcomes] : ProcessPendingCommits(outs)
    \/ ClearPendingQueue
    \/ \E o \in CommitOutcomes : CreateScheduledCommit(o, MaxPayload)
    \/ SchedulerProcessPending
    \/ \E point \in CrashPoints : CrashInEnqueue(point)
    \/ \E point \in CrashPoints : CrashInSweep(point)
    \/ \E point \in CrashPoints : CrashInClear(point)

DiskSpec == DiskInit /\ [][DiskNext]_vars

\* --------------------------- two threads of control on the same queue
RaceInit ==
    /\ now = 0
    /\ cfg \in DiskConfigs
    /\ pending_file = <<>>
    /\ stats_file = default_stats
    /\ errors_file = <<>>
    /\ disk = "ok"
    /\ stats = scheduler_stats
    /\ nextId = 0
    /\ lastOp = NoOp
    /\ is_running = FALSE
    /\ stop_event = FALSE
    /\ scheduler_thread = 0
    /\ threads = [t \in Threads |-> Caller]
    /\ jobs = <<>>
    /\ nextJob = 0

RaceNext ==
    \/ \E d \in Payloads : HandleCommitError(d)
    \/ ClearPendingQueue
    \/ \E t \in Threads : SweepRead(t)
    \/ \E t \in Threads : \E outs \in [1..Len(threads[t].work) -> Outcomes] :
           SweepWrite(t, outs)

RaceSpec == RaceInit /\ [][RaceNext]_vars

\* ------------------- ErrorHandler's queue over two rounds of retries
OrderConfigs ==
    {[c EXCEPT !.retry_delay_minutes = OrderDelay] :
        c \in {d \in Configs : /\ d.retry_attempts = MaxRetryAttempts
                                /\ d.max_queue_size = MaxQueueSize
                                /\ d.queue_failed_commits
                                /\ d.retry_delay_minutes = MaxRetryDelay}}

OrderInit ==
    /\ now = 0
    /\ cfg \in OrderConfigs
    /\ pending_file = <<>>
    /\ stats_file = default_stats
    /\ errors_file = <<>>
    /\ disk = "ok"
    /\ stats = scheduler_stats
    /\ nextId = 0
    /\ lastOp = NoOp
    /\ is_running = FALSE
    /\ stop_event = FALSE
    /\ scheduler_thread = 0
    /\ threads = [t \in Threads |-> NoThread]
    /\ jobs = <<>>
    /\ nextJob = 0

OrderNext ==
    \/ \E d \in Payloads : HandleCommitError(d)
    \/ \E outs \in [1..Len(pending_file) -> Outcomes] : ProcessPendingLate(outs)
    \/ TickLate

OrderSpec == OrderInit /\ [][OrderNext]_vars

\* ------------------------------------------- the Scheduler from start()
\* a Friday evening, inside the active hours
StartTimes == {4 * MinutesPerDay + 22 * 60 + 40}

SchedConfigs ==
    [retry_attempts : {MaxRetryAttempts},
     retry_delay_minutes : {MaxRetryDelay},
     max_queue_size : {MaxQueueSize},
     queue_failed_commits : {TRUE},
     local_path_set : {TRUE},
     min_commits_per_day : {1},
     max_commits_per_day : {MaxCommits},
     active_start : {22},
     active_end : {23},
     weekend_activity : BOOLEAN,
     random_delays : {TRUE},
     vary_commit_times : {TRUE}]

SchedInit ==
    /\ now \in StartTimes
    /\ cfg \in SchedConfigs
    /\ pending_file = <<>>
    /\ stats_file = default_stats
    /\ errors_file = <<>>
    /\ disk = "ok"
    /\ stats = scheduler_stats
    /\ nextId = 0
    /\ lastOp = NoOp
    /\ is_running = FALSE
    /\ stop_event = FALSE
    /\ scheduler_thread = 0
    /\ threads = [t \in Threads |-> NoThread]
    /\ jobs = <<>>
    /\ nextJob = 0

SchedNext ==
    \/ Start
    \/ Stop
    \/ \E t \in Threads : \E d \in PlanDraws(cfg) : ThreadPlan(t, d)
    \/ \E t \in Threads : ThreadExit(t)
    \/ \E t \in Threads : RunPending(t)
    \/ \E t \in Threads : \E o \in CommitOutcomes : JobCommit(t, o)
    \/ \E t \in Threads : JobSweep(t)
    \/ \E t \in Threads : \E d \in PlanDraws(cfg) : JobPlan(t, d)
    \/ \E t \in Threads : JobHealth(t)
    \/ \E t \in Threads : JobStats(t)
    \/ Advance

SchedSpec == SchedInit /\ [][SchedNext]_vars

\* ------------------------------------------- planning at start(), any time
\* a Tuesday and a Saturday; hours before, at, inside and after the windows
PlanDays == {1, 5}
PlanHours == {0, 8, 9, 15, 21, 23}
PlanMinutes == {0, 30, 55}
PlanTimes ==
    {d * MinutesPerDay + h * 60 + m : d \in PlanDays, h \in PlanHours, m \in PlanMinutes}
PlanWindows == {<<9, 21>>, <<0, 23>>, <<22, 23>>}
PlanQuotas == {<<1, 1>>, <<1, 3>>, <<3, 3>>}

PlanConfigs ==
    {[retry_attempts |-> MaxRetryAttempts,
      retry_delay_minutes |-> MaxRetryDelay,
      max_queue_size |-> MaxQueueSize,
      queue_failed_commits |-> TRUE,
      local_path_set |-> TRUE,
      min_commits_per_day |-> q[1],
      max_commits_per_day |-> q[2],
      active_start |-> w[1],
      active_end |-> w[2],
      weekend_activity |-> we,
      random_delays |-> rd,
      vary_commit_times |-> vt] :
        q \in PlanQuotas, w \in PlanWindows, we \in BOOLEAN, rd \in BOOLEAN,
        vt \in BOOLEAN}

PlanInit ==
    /\ now \in PlanTimes
    /\ cfg \in PlanConfigs
    /\ pending_file = <<>>
    /\ stats_file = default_stats
    /\ errors_file = <<>>
    /\ disk = "ok"
    /\ stats = scheduler_stats
    /\ nextId = 0
    /\ lastOp = NoOp
    /\ is_running = FALSE
    /\ stop_event = FALSE
    /\ scheduler_thread = 0
    /\ threads = [t \in Threads |-> NoThread]
    /\ jobs = <<>>
    /\ nextJob = 0

PlanNext ==
    \/ Start
    \/ \E t \in Threads : \E d \in PlanDraws(cfg) : ThreadPlan(t, d)

PlanSpec == PlanInit /\ [][PlanNext]_vars

\* --------------------------- start() after set() changed the configuration
SetQuotas == {1, 2}
SetHours == {9, 21, 24}
ConfigTimes == {MinutesPerDay + 8 * 60, MinutesPerDay + 10 * 60 + 55}

LoadedConfigs ==
    {c \in [retry_attempts : {MaxRetryAttempts},
            retry_delay_minutes : {MaxRetryDelay},
            max_queue_size : {MaxQueueSize},
            queue_failed_commits : {TRUE},
            local_path_set : {TRUE},
            min_commits_per_day : SetQuotas,
            max_commits_per_day : SetQuotas,
            active_start : {9},
            active_end : {21},
            weekend_activity : {FALSE},
            random_delays : {FALSE},
            vary_commit_times : {FALSE}] : _validate_config(c)}

ConfigInit ==
    /\ now \in ConfigTimes
    /\ cfg \in LoadedConfigs
    /\ pending_file = <<>>
    /\ stats_file = default_stats
    /\ errors_file = <<>>
    /\ disk = "ok"
    /\ stats = scheduler_stats
    /\ nextId = 0
    /\ lastOp = NoOp
    /\ is_running = FALSE
    /\ stop_event = FALSE
    /\ scheduler_thread = 0
    /\ threads = [t \in Threads |-> NoThread]
    /\ jobs = <<>>
    /\ nextJob = 0

ConfigNext ==
    \/ \E k \in {"min_commits_per_day", "max_commits_per_day"} :
           \E v \in SetQuotas : ConfigSet(k, v)
    \/ \E k \in {"active_start", "active_end"} : \E v \in SetHours : ConfigSet(k, v)
    \/ Start
    \/ \E t \in Threads : \E d \in PlanDraws(cfg) : ThreadPlan(t, d)

ConfigSpec == ConfigInit /\ [][ConfigNext]_vars

\* ------------------- start() and stop() in any order, under any settings
ApiInit ==
    /\ now \in ConfigTimes
    /\ cfg \in {[c EXCEPT !.local_path_set = b] : c \in LoadedConfigs, b \in BOOLEAN}
    /\ pending_file = <<>>
    /\ stats_file = default_stats
    /\ errors_file = <<>>
    /\ disk = "ok"
    /\ stats = scheduler_stats
    /\ nextId = 0
    /\ lastOp = NoOp
    /\ is_running = FALSE
    /\ stop_event = FALSE
    /\ scheduler_thread = 0
    /\ threads = [t \in Threads |-> NoThread]
    /\ jobs = <<>>
    /\ nextJob = 0

ApiNext ==
    \/ \E k \in {"min_commits_per_day", "max_commits_per_day"} :
           \E v \in SetQuotas \cup {None} : ConfigSet(k, v)
    \/ \E b \in BOOLEAN : ConfigSet("local_path_set", b)
    \/ Start
    \/ StartRejected
    \/ StartAlreadyRunning
    \/ Stop
    \/ StopAlreadyStopped
    \/ \E t \in Threads : \E d \in PlanDraws(cfg) : ThreadPlan(t, d)
    \/ \E t \in Threads : ThreadExit(t)
    \/ \E outcome \in CommitOutcomes : CreateTestCommit(outcome)

ApiSpec == ApiInit /\ [][ApiNext]_vars
====
